---- MODULE Spec2Model ----
(***************************************************************************)
(* keadm: profile resolution, override reconciliation, the helm            *)
(* upgrade-or-install protocol (KubeCloudHelmInstTool) and the edge        *)
(* configuration materializer (KubeEdgeInstTool.createEdgeConfigFiles).    *)
(*                                                                         *)
(* A Go string is a sequence of one-character strings, so that Split,      *)
(* TrimPrefix, sort.Strings and Sprintf are computed character by          *)
(* character.                                                              *)
(***************************************************************************)
EXTENDS Integers, Sequences, FiniteSets, TLC

VARIABLES
    cu,              \* the KubeCloudHelmInstTool being run
    cu0,             \* the tool as its caller built it
    pc,              \* the statement of InstallTools reached
    ret,             \* what InstallTools returned
    pending,         \* cu.Sets as handed to sort.Strings by rebuildFlagVals
    profileValsMap,  \* the value tree combineProfVals returned
    renderer,        \* the Renderer built by buildRenderer
    steps,           \* the calls InstallTools has made in this run, in order
    calls,           \* the backend calls of this run with their results
    releases,        \* the releases of the component in the cluster
    release0,        \* the releases there were before the first run
    invocations,     \* the runs of InstallTools started so far
    applies,         \* the runs of RunHelmInstall started so far
    faulted,         \* a step failed for a reason outside the program
    ku,              \* the KubeEdgeInstTool and which createEdgeConfigFiles it runs
    edgeFile,        \* the persisted edgecore configuration file
    edgeFile0,       \* the file before the call
    edgeRun,         \* how far createEdgeConfigFiles got
    loop             \* the locals of Add...2ToolsList and the tool list it fills

vars == <<cu, cu0, pc, ret, pending, profileValsMap, renderer, steps, calls,
          releases, release0, invocations, applies, faulted,
          ku, edgeFile, edgeFile0, edgeRun, loop>>

edgeVars == <<ku, edgeFile, edgeFile0, edgeRun>>

loopVars == <<loop>>

clusterVars == <<calls, releases, release0, invocations, applies, faulted>>

(***************************************************************************)
(* Strings                                                                 *)
(***************************************************************************)

\* The characters the model uses, in ASCII byte order.
CharOrder ==
    <<",", "-", ".", "/",
      "0", "1", "2", "3", "4", "5", "6", "7", "8", "9", ":", "=",
      "A", "B", "C", "D", "E", "F", "G", "H", "I", "J", "K", "L", "M",
      "N", "O", "P", "Q", "R", "S", "T", "U", "V", "W", "X", "Y", "Z",
      "[", "]",
      "a", "b", "c", "d", "e", "f", "g", "h", "i", "j", "k", "l", "m",
      "n", "o", "p", "q", "r", "s", "t", "u", "v", "w", "x", "y", "z">>

Ord(c) ==
    CHOOSE i \in 1..Len(CharOrder) : CharOrder[i] = c

Digits ==
    <<"0", "1", "2", "3", "4", "5", "6", "7", "8", "9">>

IsDigit(c) ==
    \E i \in 1..Len(Digits) : Digits[i] = c

DigitVal(c) ==
    (CHOOSE i \in 1..Len(Digits) : Digits[i] = c) - 1

\* Go's < on strings: byte-wise lexicographic.
RECURSIVE StrLess(_, _)
StrLess(a, b) ==
    IF Len(b) = 0 THEN FALSE
    ELSE IF Len(a) = 0 THEN TRUE
    ELSE IF Head(a) = Head(b) THEN StrLess(Tail(a), Tail(b))
    ELSE Ord(Head(a)) < Ord(Head(b))

\* strings.Split(s, sep) for a one-character sep: always at least one part.
RECURSIVE SplitFrom(_, _, _)
SplitFrom(s, sep, cur) ==
    IF Len(s) = 0 THEN <<cur>>
    ELSE IF Head(s) = sep THEN <<cur>> \o SplitFrom(Tail(s), sep, <<>>)
    ELSE SplitFrom(Tail(s), sep, Append(cur, Head(s)))

Split(s, sep) ==
    SplitFrom(s, sep, <<>>)

HasPrefix(s, p) ==
    Len(s) >= Len(p) /\ SubSeq(s, 1, Len(p)) = p

\* strings.TrimPrefix
TrimPrefix(s, p) ==
    IF HasPrefix(s, p) THEN SubSeq(s, Len(p) + 1, Len(s)) ELSE s

\* strconv.Itoa / the %d verb, for n >= 0
RECURSIVE Itoa(_)
Itoa(n) ==
    IF n < 10 THEN <<Digits[n + 1]>>
    ELSE Itoa(n \div 10) \o <<Digits[(n % 10) + 1]>>

\* strconv.Atoi on a string of decimal digits
RECURSIVE AtoiDigits(_, _)
AtoiDigits(s, acc) ==
    IF Len(s) = 0 THEN acc
    ELSE AtoiDigits(Tail(s), acc * 10 + DigitVal(Head(s)))

IsNumeric(s) ==
    Len(s) > 0 /\ \A i \in 1..Len(s) : IsDigit(s[i])

RECURSIVE InsertSorted(_, _)
InsertSorted(sorted, x) ==
    IF Len(sorted) = 0 THEN <<x>>
    ELSE IF StrLess(x, Head(sorted)) THEN <<x>> \o sorted
    ELSE <<Head(sorted)>> \o InsertSorted(Tail(sorted), x)

\* Leaving the list in the order given.
NoSort(l) ==
    l

\* sort.Strings: the ascending arrangement of the list.
RECURSIVE SortStrings(_)
SortStrings(l) ==
    IF Len(l) = 0 THEN <<>>
    ELSE InsertSorted(SortStrings(Tail(l)), Head(l))

(***************************************************************************)
(* Error values.  fmt is the format string of the fmt.Errorf that built    *)
(* the error, arg its string argument.                                     *)
(***************************************************************************)

Nil ==
    [kind |-> "nil", fmt |-> "", arg |-> <<>>]

Err(f, a) ==
    [kind |-> "error", fmt |-> f, arg |-> a]

\* A run-time panic: the call does not return to its caller.
Panic(f) ==
    [kind |-> "panic", fmt |-> f, arg |-> <<>>]

(***************************************************************************)
(* Constants of the program                                                *)
(***************************************************************************)

VersionProfileKey ==
    <<"v", "e", "r", "s", "i", "o", "n">>

IptablesMgrProfileKey ==
    <<"i", "p", "t", "a", "b", "l", "e", "s", "M", "g", "r", "M", "o", "d", "e">>

EdgemeshProfileKey ==
    <<"e", "d", "g", "e", "m", "e", "s", "h">>

DefaultProfileString ==
    <<"v", "e", "r", "s", "i", "o", "n">>

HelmSupportedMinVersion ==
    <<"v", "1", ".", "3", ".", "0">>

InternalIptablesMgrMode ==
    <<"i", "n", "t", "e", "r", "n", "a", "l">>

ExternalIptablesMgrMode ==
    <<"e", "x", "t", "e", "r", "n", "a", "l">>

CloudCoreHelmComponent ==
    <<"c", "l", "o", "u", "d", "c", "o", "r", "e">>

EdgemeshHelmComponent ==
    <<"c", "l", "o", "u", "d", "c", "o", "r", "e">>

PathAdvertiseAddress ==
    <<"c", "l", "o", "u", "d", "C", "o", "r", "e", ".", "m", "o", "d", "u", "l", "e", "s", ".",
      "c", "l", "o", "u", "d", "H", "u", "b", ".",
      "a", "d", "v", "e", "r", "t", "i", "s", "e", "A", "d", "d", "r", "e", "s", "s">>

PathCloudCoreRepository ==
    <<"c", "l", "o", "u", "d", "C", "o", "r", "e", ".", "i", "m", "a", "g", "e", ".",
      "r", "e", "p", "o", "s", "i", "t", "o", "r", "y">>

PathCloudCoreTag ==
    <<"c", "l", "o", "u", "d", "C", "o", "r", "e", ".", "i", "m", "a", "g", "e", ".", "t", "a", "g">>

PathIptablesMgrRepository ==
    <<"i", "p", "t", "a", "b", "l", "e", "s", "M", "a", "n", "a", "g", "e", "r", ".",
      "i", "m", "a", "g", "e", ".", "r", "e", "p", "o", "s", "i", "t", "o", "r", "y">>

PathIptablesMgrTag ==
    <<"i", "p", "t", "a", "b", "l", "e", "s", "M", "a", "n", "a", "g", "e", "r", ".",
      "i", "m", "a", "g", "e", ".", "t", "a", "g">>

PathIptablesMgrMode ==
    <<"i", "p", "t", "a", "b", "l", "e", "s", "M", "a", "n", "a", "g", "e", "r", ".", "m", "o", "d", "e">>

\* fmt.Sprintf("%s=%s", k, v)
KeyEqVal(k, v) ==
    k \o <<"=">> \o v

(***************************************************************************)
(* rebuildFlagVals                                                         *)
(***************************************************************************)

\* The text before the first '=' of an override expression (p[0]).
PathOf(s) ==
    Split(s, "=")[1]

HasEq(s) ==
    Len(Split(s, "=")) >= 2

\* cu.Sets after the dedicated flags have been appended (before the sort).
FlagSets(c) ==
    LET parts == Split(c.AdvertiseAddress, ",")
        adv == IF c.AdvertiseAddress # <<>>
               THEN [i \in 1..Len(parts) |->
                        PathAdvertiseAddress \o <<"[">> \o Itoa(i - 1) \o <<"]", "=">> \o parts[i]]
               ELSE <<>>
        img == IF c.CloudcoreImage # <<>>
               THEN <<KeyEqVal(PathCloudCoreRepository, c.CloudcoreImage)>> ELSE <<>>
        tag == IF c.CloudcoreTag # <<>>
               THEN <<KeyEqVal(PathCloudCoreTag, c.CloudcoreTag)>> ELSE <<>>
        mimg == IF c.IptablesMgrImage # <<>>
                THEN <<KeyEqVal(PathIptablesMgrRepository, c.IptablesMgrImage)>> ELSE <<>>
        mtag == IF c.IptablesMgrTag # <<>>
                THEN <<KeyEqVal(PathIptablesMgrTag, c.IptablesMgrTag)>> ELSE <<>>
    IN  c.Sets \o adv \o img \o tag \o mimg \o mtag

\* The element kept for a path that repeats: the code overwrites the last
\* kept expression with the current one.
KeepFirstDuplicate(sets, s) ==
    sets

ReplaceLastKept(sets, s) ==
    [sets EXCEPT ![Len(sets)] = s]

\* The loop over the sorted list; index is Go's 0-based loop index.
\* sets[len(sets)-1] = s on an empty sets is an index-out-of-range panic.
RECURSIVE DedupLoop(_, _, _, _)
DedupLoop(sorted, index, formerValue, sets) ==
    IF index >= Len(sorted) THEN [panic |-> FALSE, sets |-> sets]
    ELSE LET s == sorted[index + 1]
             p == Split(s, "=")
         IN  IF Len(p) < 2
             THEN DedupLoop(sorted, index + 1, formerValue, sets)
             ELSE IF index > 0 /\ p[1] = formerValue
                  THEN IF Len(sets) = 0
                       THEN [panic |-> TRUE, sets |-> sets]
                       ELSE DedupLoop(sorted, index + 1, p[1], ReplaceLastKept(sets, s))
                  ELSE DedupLoop(sorted, index + 1, p[1], Append(sets, s))

rebuildFlagVals(c) ==
    LET sorted == SortStrings(FlagSets(c))
        r == DedupLoop(sorted, 0, <<>>, <<>>)
    IN  IF r.panic
        THEN [cu |-> [c EXCEPT !.Sets = sorted],
              ret |-> Panic("index out of range [-1]")]
        ELSE [cu |-> [c EXCEPT !.Sets = r.sets], ret |-> Nil]

(***************************************************************************)
(* Profile resolution: checkProfile, handleProfile, BeforeRenderer         *)
(***************************************************************************)

\* semver.Make on MAJOR.MINOR.PATCH: three numeric parts without leading
\* zeroes (pre-release and build suffixes are outside the model's alphabet).
SemverPartOk(s) ==
    IsNumeric(s) /\ (Len(s) > 1 => Head(s) # "0")

semverMake(s) ==
    LET parts == Split(s, ".")
    IN  IF Len(parts) = 3 /\ \A i \in 1..3 : SemverPartOk(parts[i])
        THEN [ok |-> TRUE,
              v |-> <<AtoiDigits(parts[1], 0), AtoiDigits(parts[2], 0), AtoiDigits(parts[3], 0)>>]
        ELSE [ok |-> FALSE, v |-> <<0, 0, 0>>]

\* Version.LT
semverLT(a, b) ==
    \/ a[1] < b[1]
    \/ a[1] = b[1] /\ a[2] < b[2]
    \/ a[1] = b[1] /\ a[2] = b[2] /\ a[3] < b[3]

\* readProfiles(DefaultHelmRoot): the keys of the bundled profile directory.
ValidProfiles ==
    {VersionProfileKey, IptablesMgrProfileKey, EdgemeshProfileKey, <<"a", "d", "d", "o", "n">>}

\* The outcomes of readProfiles: the listing fails, or it returns the keys.
ReadProfilesOutcomes ==
    {[ok |-> FALSE, keys |-> {}], [ok |-> TRUE, keys |-> ValidProfiles]}

checkProfile(c, rp) ==
    IF ~rp.ok THEN Err("cannot list profile", <<>>)
    ELSE IF c.ProfileKey \notin rp.keys THEN Err("unsupported profile %s", c.Profile)
    ELSE Nil

\* The version branch for a v-prefixed value below the minimum.
AcceptAnyVersion(version, minVersion) ==
    FALSE

VersionTooOld(version, minVersion) ==
    semverLT(version, minVersion)

handleProfile(c, profileValue) ==
    IF c.ProfileKey = VersionProfileKey
    THEN LET profileValueSuffix == TrimPrefix(profileValue, <<"v">>)
         IN  IF profileValue # profileValueSuffix
             THEN LET version == semverMake(profileValueSuffix)
                      minVersion == semverMake(TrimPrefix(HelmSupportedMinVersion, <<"v">>))
                  IN  IF ~version.ok
                      THEN [cu |-> c, ret |-> Err("semver", profileValueSuffix)]
                      ELSE IF VersionTooOld(version.v, minVersion.v)
                      THEN [cu |-> c,
                            ret |-> Err("the given version %s is not supported, you can try binary deployments with this version",
                                        profileValue)]
                      ELSE [cu |-> [c EXCEPT !.Sets = c.Sets \o
                                       <<KeyEqVal(PathCloudCoreTag, <<"v">> \o profileValueSuffix),
                                         KeyEqVal(PathIptablesMgrTag, <<"v">> \o profileValueSuffix)>>],
                            ret |-> Nil]
             ELSE [cu |-> [c EXCEPT !.Sets = c.Sets \o
                              <<KeyEqVal(PathCloudCoreTag, profileValue),
                                KeyEqVal(PathIptablesMgrTag, profileValue)>>],
                   ret |-> Nil]
    ELSE IF c.ProfileKey = IptablesMgrProfileKey
    THEN IF profileValue \in {InternalIptablesMgrMode, ExternalIptablesMgrMode}
         THEN [cu |-> [c EXCEPT !.Sets = Append(c.Sets, KeyEqVal(PathIptablesMgrMode, profileValue))],
               ret |-> Nil]
         \* default: only the local variable profileValue is reassigned
         ELSE [cu |-> c, ret |-> Nil]
    ELSE [cu |-> c, ret |-> Nil]

\* The profile used when BeforeRenderer is given the empty string.
DefaultProfile ==
    KeyEqVal(VersionProfileKey, HelmSupportedMinVersion)

KeepEmptyProfile(profile) ==
    profile

EffectiveProfile(profile) ==
    IF profile = <<>> THEN DefaultProfile ELSE profile

\* BeforeRenderer up to "rebuild flag values".
ResolveProfile(c, rp) ==
    LET c1 == [c EXCEPT !.Profile = EffectiveProfile(c.Profile)]
        p == Split(c1.Profile, "=")
    IN  IF Len(p) < 2
        THEN [cu |-> c1, ret |-> Err("invalid profile %s", c1.Profile)]
        ELSE LET c2 == [c1 EXCEPT !.ProfileKey = p[1]]
             IN  IF checkProfile(c2, rp) # Nil
                 THEN [cu |-> c2, ret |-> Err("invalid profile %s", c2.Profile)]
                 ELSE LET h == handleProfile(c2, p[2])
                      IN  IF h.ret # Nil
                          THEN [cu |-> h.cu, ret |-> Err("can not handle profile %s", c2.Profile)]
                          ELSE [cu |-> h.cu, ret |-> Nil]

BeforeRenderer(c, rp) ==
    LET r == ResolveProfile(c, rp)
    IN  IF r.ret # Nil THEN r ELSE rebuildFlagVals(r.cu)

isInnerProfile(c) ==
    \/ c.ProfileKey = <<>>
    \/ c.ProfileKey = DefaultProfileString
    \/ c.ProfileKey = IptablesMgrProfileKey
    \/ c.ProfileKey = EdgemeshProfileKey

(***************************************************************************)
(* Value trees and combineProfVals                                         *)
(*                                                                         *)
(* A value tree is the function from the paths of its leaves to their      *)
(* scalars; a path is a sequence of segments, a map key or a list index.   *)
(***************************************************************************)

Key(k) ==
    [k |-> k, i |-> -1]

Idx(n) ==
    [k |-> <<>>, i |-> n]

EmptyTree ==
    [q \in {} |-> <<>>]

IsPrefix(q, p) ==
    Len(q) <= Len(p) /\ SubSeq(p, 1, Len(q)) = q

\* One dotted part of a path: name or name[index].
ParseSeg(part) ==
    LET b == Split(part, "[")
    IN  IF Len(b) = 1 THEN [ok |-> TRUE, segs |-> <<Key(part)>>]
        ELSE IF /\ Len(b) = 2
                /\ Len(b[2]) >= 1
                /\ b[2][Len(b[2])] = "]"
                /\ IsNumeric(SubSeq(b[2], 1, Len(b[2]) - 1))
        THEN [ok |-> TRUE,
              segs |-> <<Key(b[1]), Idx(AtoiDigits(SubSeq(b[2], 1, Len(b[2]) - 1), 0))>>]
        ELSE [ok |-> FALSE, segs |-> <<>>]

RECURSIVE ParseParts(_)
ParseParts(parts) ==
    IF Len(parts) = 0 THEN [ok |-> TRUE, segs |-> <<>>]
    ELSE LET h == ParseSeg(Head(parts))
             r == ParseParts(Tail(parts))
         IN  [ok |-> h.ok /\ r.ok, segs |-> h.segs \o r.segs]

ParsePath(path) ==
    ParseParts(Split(path, "."))

\* The setter cannot descend through a scalar, nor index a map or key a list.
PathConflict(tree, segs) ==
    \E q \in DOMAIN tree :
        \/ IsPrefix(q, segs) /\ q # segs
        \/ \E j \in 1..Len(q) :
              /\ j <= Len(segs)
              /\ SubSeq(q, 1, j - 1) = SubSeq(segs, 1, j - 1)
              /\ (q[j].i >= 0) # (segs[j].i >= 0)

\* Setting a path replaces whatever subtree was there.
SetPath(tree, segs, v) ==
    [q \in {x \in DOMAIN tree : ~IsPrefix(segs, x)} \cup {segs} |->
        IF q = segs THEN v ELSE tree[q]]

\* The text after the first '=' of an override expression.
ValueOf(s) ==
    SubSeq(s, Len(PathOf(s)) + 2, Len(s))

\* One assignment path=value of an expression.
ParseOne(s, tree) ==
    IF ~HasEq(s) THEN [ok |-> FALSE, tree |-> tree]
    ELSE LET pp == ParsePath(PathOf(s))
         IN  IF ~pp.ok \/ PathConflict(tree, pp.segs)
             THEN [ok |-> FALSE, tree |-> tree]
             ELSE [ok |-> TRUE, tree |-> SetPath(tree, pp.segs, ValueOf(s))]

RECURSIVE ParseAll(_, _)

\* The assignments after one that gave r.
ParseRest(r, rest) ==
    IF ~r.ok THEN r ELSE ParseAll(rest, r.tree)

ParseAll(parts, tree) ==
    IF Len(parts) = 0 THEN [ok |-> TRUE, tree |-> tree]
    ELSE ParseRest(ParseOne(Head(parts), tree), Tail(parts))

\* strvals.ParseInto(value, profileValsMap): an expression is a list of
\* assignments separated by commas, set from left to right.
ParseInto(s, tree) ==
    ParseAll(Split(s, ","), tree)

\* The value the tree holds at the path of expression s, or "absent".
Lookup(tree, s) ==
    LET pp == ParsePath(PathOf(s))
    IN  IF pp.ok /\ pp.segs \in DOMAIN tree
        THEN [present |-> TRUE, v |-> tree[pp.segs]]
        ELSE [present |-> FALSE, v |-> <<>>]

\* for _, value := range cu.Sets { strvals.ParseInto(value, profileValsMap) }
RECURSIVE FoldSets(_, _)
FoldSets(sets, tree) ==
    IF Len(sets) = 0 THEN [ok |-> TRUE, tree |-> tree, bad |-> <<>>]
    ELSE LET r == ParseInto(Head(sets), tree)
         IN  IF ~r.ok THEN [ok |-> FALSE, tree |-> tree, bad |-> Head(sets)]
             ELSE FoldSets(Tail(sets), r.tree)

\* combineProfVals without the loop over cu.Sets.
combineProfValsNoSets(c, lv) ==
    IF ~lv.ok THEN [ok |-> FALSE, tree |-> EmptyTree, ret |-> Err("cannot load profile yaml:%s", <<>>)]
    ELSE [ok |-> TRUE, tree |-> lv.tree, ret |-> Nil]

\* lv is the outcome of LoadValues(cu.ProfileKey, DefaultHelmRoot) and of
\* the yaml.Unmarshal of what it returned.
combineProfVals(c, lv) ==
    IF ~lv.ok THEN [ok |-> FALSE, tree |-> EmptyTree, ret |-> Err("cannot load profile yaml:%s", <<>>)]
    ELSE LET f == FoldSets(c.Sets, lv.tree)
         IN  IF f.ok THEN [ok |-> TRUE, tree |-> f.tree, ret |-> Nil]
             ELSE [ok |-> FALSE, tree |-> EmptyTree,
                   ret |-> Err("failed parsing --set data:%s", f.bad)]

\* buildRenderer: a nil renderer and the error, or the renderer.
buildRenderer(c, lv) ==
    LET r == combineProfVals(c, lv)
    IN  IF ~r.ok
        THEN [isNil |-> TRUE, componentName |-> <<>>, profileValsMap |-> EmptyTree, ret |-> r.ret]
        ELSE [isNil |-> FALSE,
              componentName |->
                  IF isInnerProfile(c)
                  THEN (IF c.ProfileKey = EdgemeshProfileKey
                        THEN EdgemeshHelmComponent ELSE CloudCoreHelmComponent)
                  ELSE c.ProfileKey,
              profileValsMap |-> r.tree,
              ret |-> Nil]

(***************************************************************************)
(* Inputs                                                                  *)
(***************************************************************************)

\* The longest --set list given with the plain profiles.
MaxSets ==
    3

\* The longest --set list given together with every profile and flag choice.
MaxProfSets ==
    1

SetPool ==
    {<<"a", ".", "b", "=", "1">>,
     <<"a", ".", "b", "=", "2">>,
     <<"c", "=", "3">>,
     <<"a", "=", "1">>,
     <<"=", "x">>,
     <<"1">>,
     <<"b">>,
     <<"a", "[", "x", "]", "=", "1">>,
     <<"c", "=", "3", ",", "a", ".", "b", "=", "9">>,
     <<"c", "l", "o", "u", "d", "C", "o", "r", "e", ".", "i", "m", "a", "g", "e", ".", "t", "a", "g", "=", "v", "0">>}

\* The expressions the longer lists are built from.
CorePool ==
    {<<"a", ".", "b", "=", "1">>,
     <<"a", ".", "b", "=", "2">>,
     <<"c", "=", "3">>,
     <<"a", "=", "1">>,
     <<"=", "x">>,
     <<"1">>}

ProfilePool ==
    {<<>>,
     <<"v", "e", "r", "s", "i", "o", "n">>,
     <<"b", "o", "g", "u", "s">>,
     <<"v", "e", "r", "s", "i", "o", "n", "=", "v", "1", ".", "5", ".", "0">>,
     <<"v", "e", "r", "s", "i", "o", "n", "=", "v", "1", ".", "0", ".", "0">>,
     <<"v", "e", "r", "s", "i", "o", "n", "=", "1", ".", "5", ".", "0">>,
     <<"v", "e", "r", "s", "i", "o", "n", "=", "v", "x">>,
     <<"i", "p", "t", "a", "b", "l", "e", "s", "M", "g", "r", "M", "o", "d", "e", "=", "b", "o", "g", "u", "s">>,
     <<"i", "p", "t", "a", "b", "l", "e", "s", "M", "g", "r", "M", "o", "d", "e", "=", "e", "x", "t", "e", "r", "n", "a", "l">>,
     <<"i", "p", "t", "a", "b", "l", "e", "s", "M", "g", "r", "M", "o", "d", "e", "=", "i", "n", "t", "e", "r", "n", "a", "l">>,
     <<"n", "o", "s", "u", "c", "h", "=", "1">>,
     <<"a", "d", "d", "o", "n", "=", "o", "n">>}

\* Profiles that add nothing, or only the two image tags, to the overrides.
PlainProfiles ==
    {<<>>, <<"a", "d", "d", "o", "n", "=", "o", "n">>}

NoFlags ==
    [AdvertiseAddress |-> <<>>, CloudcoreImage |-> <<>>, CloudcoreTag |-> <<>>,
     IptablesMgrImage |-> <<>>, IptablesMgrTag |-> <<>>]

FlagPool ==
    {NoFlags,
     [NoFlags EXCEPT !.CloudcoreTag = <<"v", "9">>],
     [NoFlags EXCEPT !.CloudcoreImage = <<"r">>, !.IptablesMgrImage = <<"r">>,
                     !.IptablesMgrTag = <<"v", "9">>],
     [NoFlags EXCEPT !.AdvertiseAddress = <<"h", ",", "i">>]}

ListsUpTo(S, n) ==
    UNION {[1..k -> S] : k \in 0..n}

Key_a ==
    Key(<<"a">>)

Key_b ==
    Key(<<"b">>)

Key_c ==
    Key(<<"c">>)

\* What the profile's values file may hold.
BaseTrees ==
    {EmptyTree,
     [q \in {<<Key_a>>} |-> <<"0">>],
     [q \in {<<Key_a, Key_b>>, <<Key_c>>} |-> <<"0">>],
     [q \in {<<Key(<<"c", "l", "o", "u", "d", "C", "o", "r", "e">>),
               Key(<<"i", "m", "a", "g", "e">>), Key(<<"t", "a", "g">>)>>} |-> <<"0">>]}

LoadValuesOutcomes ==
    {[ok |-> FALSE, tree |-> EmptyTree]} \cup {[ok |-> TRUE, tree |-> b] : b \in BaseTrees}

NewTool(profile, sets, flags) ==
    [Profile |-> profile, ProfileKey |-> <<>>, Sets |-> sets,
     Force |-> FALSE, DryRun |-> FALSE,
     AdvertiseAddress |-> flags.AdvertiseAddress,
     CloudcoreImage |-> flags.CloudcoreImage, CloudcoreTag |-> flags.CloudcoreTag,
     IptablesMgrImage |-> flags.IptablesMgrImage, IptablesMgrTag |-> flags.IptablesMgrTag]

ToolInputs ==
    {NewTool(p, s, NoFlags) : p \in PlainProfiles, s \in ListsUpTo(CorePool, MaxSets)}
    \cup {NewTool(p, s, f) : p \in ProfilePool, s \in ListsUpTo(SetPool, MaxProfSets), f \in FlagPool}

(***************************************************************************)
(* The resolution pipeline of InstallTools: BeforeRenderer, buildRenderer  *)
(***************************************************************************)

\* The state of the edge side where only the cloud side is run.
NoEdgeTool ==
    [version |-> "none"]

NoFile ==
    [content |-> "no file"]

NotRun ==
    [mkdir |-> FALSE, assembled |-> FALSE, validated |-> "not run", writeTried |-> FALSE]

\* The tool list where Add...2ToolsList is not run.
NoLoop ==
    [fn |-> "none"]

\* One entry of steps: the call made and whether it succeeded.
Step(name, ok) ==
    [call |-> name, ok |-> ok]

NoRenderer ==
    [isNil |-> TRUE, componentName |-> <<>>, chart |-> <<>>, profileValsMap |-> EmptyTree]

InitSets ==
    /\ cu0 \in ToolInputs
    /\ cu = cu0
    /\ pc = "BeforeRenderer"
    /\ ret = Nil
    /\ pending = <<>>
    /\ profileValsMap = EmptyTree
    /\ renderer = NoRenderer
    /\ steps = <<>>
    /\ calls = <<>>
    /\ releases = 0
    /\ release0 = 0
    /\ invocations = 1
    /\ applies = 0
    /\ faulted = FALSE
    /\ ku = NoEdgeTool
    /\ edgeFile = NoFile
    /\ edgeFile0 = NoFile
    /\ edgeRun = NotRun
    /\ loop = NoLoop

\* InstallTools, "prepare to render"
DoBeforeRenderer ==
    /\ pc = "BeforeRenderer"
    /\ \E rp \in ReadProfilesOutcomes :
          LET r == BeforeRenderer(cu, rp)
          IN  /\ cu' = r.cu
              /\ ret' = r.ret
              /\ pc' = IF r.ret = Nil THEN "buildRenderer" ELSE "done"
              /\ pending' = IF ResolveProfile(cu, rp).ret = Nil
                            THEN FlagSets(ResolveProfile(cu, rp).cu) ELSE <<>>
              /\ steps' = Append(steps, Step("BeforeRenderer", r.ret = Nil))
    /\ UNCHANGED <<cu0, profileValsMap, renderer, clusterVars, edgeVars, loopVars>>

\* InstallTools, "build a renderer instance": on an error the message is
\* formatted from renderer.componentName, and renderer is nil.
DoBuildRenderer ==
    /\ pc = "buildRenderer"
    /\ \E lv \in LoadValuesOutcomes :
          LET r == buildRenderer(cu, lv)
          IN  /\ steps' = Append(steps, Step("buildRenderer", r.ret = Nil))
              /\ IF r.ret # Nil
                 THEN /\ ret' = Panic("nil pointer dereference")
                      /\ pc' = "done"
                      /\ UNCHANGED <<profileValsMap, renderer>>
                 ELSE /\ profileValsMap' = r.profileValsMap
                      /\ renderer' = [isNil |-> FALSE, componentName |-> r.componentName,
                                      chart |-> <<>>, profileValsMap |-> r.profileValsMap]
                      /\ pc' = "LoadChart"
                      /\ UNCHANGED ret
    /\ UNCHANGED <<cu, cu0, pending, clusterVars, edgeVars, loopVars>>

NextSets ==
    DoBeforeRenderer \/ DoBuildRenderer

SpecSets ==
    InitSets /\ [][NextSets]_vars

(***************************************************************************)
(* Properties of the override reconciliation and of the value tree         *)
(***************************************************************************)

Range(s) ==
    {s[i] : i \in 1..Len(s)}

\* The rearrangements of a list.
Rearrangements(s) ==
    {[i \in 1..Len(s) |-> s[f[i]]] : f \in Permutations(1..Len(s))}

RpOk ==
    [ok |-> TRUE, keys |-> ValidProfiles]

IndexPanic ==
    Panic("index out of range [-1]")

\* rebuildFlagVals was called in this run ...
RebuildCalled ==
    pc \in {"buildRenderer", "LoadChart"} \/ (pc = "done" /\ ret.kind = "panic")

\* ... and returned.
RebuildReturned ==
    RebuildCalled /\ ret # IndexPanic

PathsOf(S) ==
    {PathOf(e) : e \in {x \in S : HasEq(x)}}

\* The lexicographically greatest expression of S with path q.
GreatestWithPath(S, q) ==
    CHOOSE g \in S :
        /\ HasEq(g) /\ PathOf(g) = q
        /\ \A x \in S : (HasEq(x) /\ PathOf(x) = q) => (x = g \/ StrLess(x, g))

LastInSortOrderWins ==
    /\ \A e \in Range(cu.Sets) : HasEq(e)
    /\ \A q \in PathsOf(Range(pending)) :
          {e \in Range(cu.Sets) : PathOf(e) = q} = {GreatestWithPath(Range(pending), q)}
    /\ PathsOf(Range(cu.Sets)) = PathsOf(Range(pending))

OrderIndependent ==
    \A q \in Rearrangements(cu0.Sets) :
        BeforeRenderer([cu0 EXCEPT !.Sets = q], RpOk) = [cu |-> cu, ret |-> Nil]

\* C7: whenever rebuildFlagVals is called it yields a reconciled list, the
\* same for every rearrangement of the caller's --set list, in which the
\* one expression kept for a path is the greatest "path=value" string with
\* that path among all the pending overrides.
C7_OrderIndependentLastWins ==
    RebuildCalled =>
        /\ RebuildReturned
        /\ OrderIndependent
        /\ LastInSortOrderWins

\* What of C7 the code does keep: every call that returns is order
\* independent and last-in-sort-order wins.
C7_HoldsWhenReturned ==
    (RebuildReturned /\ pc = "buildRenderer") => (OrderIndependent /\ LastInSortOrderWins)

C7_Example ==
    /\ pc = "buildRenderer"
    /\ cu0.Sets = <<<<"a", ".", "b", "=", "2">>, <<"c", "=", "3">>, <<"a", ".", "b", "=", "1">>>>
    /\ cu.Sets = <<<<"a", ".", "b", "=", "2">>, <<"c", "=", "3">>>>

NoDuplicatePaths ==
    /\ \A i, j \in 1..Len(cu.Sets) : PathOf(cu.Sets[i]) = PathOf(cu.Sets[j]) => i = j
    /\ \A q \in PathsOf(Range(pending)) :
          Cardinality({i \in 1..Len(cu.Sets) : PathOf(cu.Sets[i]) = q}) = 1

\* C8: after rebuildFlagVals, whatever the pending list held, no two
\* expressions of cu.Sets share a path and every path of a pending
\* expression with '=' occurs exactly once.
C8_NoDuplicatePaths ==
    RebuildCalled => (RebuildReturned /\ NoDuplicatePaths)

C8_HoldsWhenReturned ==
    (RebuildReturned /\ pc = "buildRenderer") => NoDuplicatePaths

\* C9 as claimed: once combineProfVals has returned the tree, every
\* surviving expression's value is at its path.
C9_OverridesAlwaysWin ==
    pc = "LoadChart" =>
        \A e \in Range(cu.Sets) :
            Lookup(profileValsMap, e) = [present |-> TRUE, v |-> ValueOf(e)]

\* An expression of one assignment.
SingleAssignment(e) ==
    Len(Split(e, ",")) = 1

\* Override f assigns the path of e, a path through it or a path under it
\* (a and a.b).
Nested(e, f) ==
    LET pe == ParsePath(PathOf(e)).segs
        parts == Split(f, ",")
    IN  /\ e # f
        /\ \E i \in 1..Len(parts) :
              LET pf == ParsePath(PathOf(parts[i])).segs
              IN  IsPrefix(pe, pf) \/ IsPrefix(pf, pe)

\* C9, amended: once combineProfVals has returned the tree, every surviving
\* expression of one assignment whose path no other surviving expression
\* assigns, runs through or extends has its value at its path, whatever the
\* base tree held.
C9_OverridesWinUnlessNested ==
    pc = "LoadChart" =>
        \A e \in Range(cu.Sets) :
            (SingleAssignment(e) /\ \A f \in Range(cu.Sets) : ~Nested(e, f)) =>
                Lookup(profileValsMap, e) = [present |-> TRUE, v |-> ValueOf(e)]

\* An override replaced what the profile's values file held at its path.
C9_Witness ==
    /\ pc = "LoadChart"
    /\ cu.Sets = <<<<"a", ".", "b", "=", "2">>, <<"c", "=", "3">>>>
    /\ profileValsMap = [q \in {<<Key_a, Key_b>>, <<Key_c>>} |->
                            IF q = <<Key_c>> THEN <<"3">> ELSE <<"2">>]
    /\ cu0.Profile = <<"a", "d", "d", "o", "n", "=", "o", "n">>

\* BeforeRenderer has returned to InstallTools (and buildRenderer has not
\* yet replaced what it returned).
BeforeRendererReturned ==
    \/ pc = "buildRenderer"
    \/ pc = "done" /\ ret.kind = "error" /\ ret.fmt \in
          {"invalid profile %s", "can not handle profile %s"}

\* C10 as claimed: a profile without '=' makes BeforeRenderer fail with the
\* invalid-profile error and leaves cu.Sets as it was.
C10_NoEqProfileFails ==
    (BeforeRendererReturned /\ ~HasEq(cu0.Profile)) =>
        /\ ret.kind = "error" /\ ret.fmt = "invalid profile %s"
        /\ cu.Sets = cu0.Sets

\* C10, amended: a non-empty profile without '=' makes BeforeRenderer fail
\* with the invalid-profile error and leaves cu.Sets as it was; the empty
\* profile is replaced by version=<minimum supported version> and resolved
\* as that profile.
C10_NonEmptyNoEqProfileFails ==
    (BeforeRendererReturned /\ ~HasEq(cu0.Profile)) =>
        IF cu0.Profile # <<>>
        THEN /\ pc = "done"
             /\ ret = Err("invalid profile %s", cu0.Profile)
             /\ cu.Sets = cu0.Sets
        ELSE /\ cu.Profile = DefaultProfile
             /\ cu.ProfileKey = VersionProfileKey
             /\ \E rp \in ReadProfilesOutcomes :
                   BeforeRenderer([cu0 EXCEPT !.Profile = DefaultProfile], rp) = [cu |-> cu, ret |-> ret]
             /\ ret = Nil =>
                   {KeyEqVal(PathCloudCoreTag, HelmSupportedMinVersion),
                    KeyEqVal(PathIptablesMgrTag, HelmSupportedMinVersion)} \subseteq Range(pending)

C10_Witness ==
    /\ pc = "done"
    /\ cu0.Profile = <<"b", "o", "g", "u", "s">>
    /\ cu0.Sets = <<<<"c", "=", "3">>>>
    /\ ret = Err("invalid profile %s", <<"b", "o", "g", "u", "s">>)
    /\ cu.Sets = cu0.Sets

(***************************************************************************)
(* Properties of the profile resolution                                    *)
(***************************************************************************)

ProfileKeyOf(c) ==
    PathOf(c.Profile)

\* p[1] of the split profile
ProfileValueOf(c) ==
    Split(c.Profile, "=")[2]

ErrInvalidProfile ==
    Err("invalid profile %s", cu0.Profile)

ErrCanNotHandle ==
    Err("can not handle profile %s", cu0.Profile)

UnknownKeyGiven ==
    /\ BeforeRendererReturned
    /\ HasEq(cu0.Profile)
    /\ ProfileKeyOf(cu0) \notin ValidProfiles

\* A version profile vX with X a version below the minimum.
OldVersionGiven ==
    /\ BeforeRendererReturned
    /\ HasEq(cu0.Profile)
    /\ ProfileKeyOf(cu0) = VersionProfileKey
    /\ HasPrefix(ProfileValueOf(cu0), <<"v">>)
    /\ semverMake(Tail(ProfileValueOf(cu0))).ok
    /\ semverLT(semverMake(Tail(ProfileValueOf(cu0))).v,
                semverMake(Tail(HelmSupportedMinVersion)).v)

\* C11: an unknown profile key reaches the caller as the unsupported-profile
\* error of checkProfile, not as the invalid-profile error of a string
\* without '='; a version below the minimum reaches the caller as the
\* unsupported-version error of handleProfile.
C11_ProfileErrorsVerbatim ==
    /\ UnknownKeyGiven =>
          ret \in {Err("unsupported profile %s", cu0.Profile), Err("cannot list profile", <<>>)}
    /\ (OldVersionGiven /\ ret # Err("cannot list profile", <<>>)) =>
          ret = Err("the given version %s is not supported, you can try binary deployments with this version",
                    ProfileValueOf(cu0))

\* What the code does instead: both errors are replaced by BeforeRenderer.
C11_ErrorsAreReplaced ==
    /\ UnknownKeyGiven => (pc = "done" /\ ret = ErrInvalidProfile)
    /\ OldVersionGiven => (pc = "done" /\ ret \in {ErrInvalidProfile, ErrCanNotHandle})

TagsFor(v) ==
    <<KeyEqVal(<<"c", "l", "o", "u", "d", "C", "o", "r", "e", ".", "i", "m", "a", "g", "e", ".", "t", "a", "g">>, v),
      KeyEqVal(<<"i", "p", "t", "a", "b", "l", "e", "s", "M", "a", "n", "a", "g", "e", "r", ".", "i", "m", "a", "g", "e", ".", "t", "a", "g">>, v)>>

VersionGiven ==
    /\ BeforeRendererReturned
    /\ HasEq(cu0.Profile)
    /\ ProfileKeyOf(cu0) = VersionProfileKey
    /\ ret # ErrInvalidProfile

\* C12: for the version key, a value vX with X below the minimum fails and
\* leaves the overrides as they were; with X at or above the minimum, and
\* for any value without the v prefix, exactly the two image tags with that
\* value are appended to the caller's overrides.
C12_VersionProfile ==
    /\ OldVersionGiven => (pc = "done" /\ ret.kind = "error" /\ cu.Sets = cu0.Sets)
    /\ (VersionGiven /\ ~OldVersionGiven
          /\ HasPrefix(ProfileValueOf(cu0), <<"v">>)
          /\ semverMake(Tail(ProfileValueOf(cu0))).ok) =>
          (ret.kind # "error" /\
           pending = FlagSets([cu0 EXCEPT !.Sets = cu0.Sets \o TagsFor(ProfileValueOf(cu0))]))
    /\ (VersionGiven /\ ~HasPrefix(ProfileValueOf(cu0), <<"v">>)) =>
          (ret.kind # "error" /\
           pending = FlagSets([cu0 EXCEPT !.Sets = cu0.Sets \o TagsFor(ProfileValueOf(cu0))]))

C12_Witness ==
    /\ pc = "done"
    /\ cu0.Profile = <<"v", "e", "r", "s", "i", "o", "n", "=", "v", "1", ".", "0", ".", "0">>
    /\ cu0.Sets = <<<<"c", "=", "3">>>>
    /\ ret = ErrCanNotHandle
    /\ cu.Sets = cu0.Sets

C12_WitnessAccepted ==
    /\ pc = "buildRenderer"
    /\ cu0.Profile = <<"v", "e", "r", "s", "i", "o", "n", "=", "v", "1", ".", "5", ".", "0">>
    /\ cu0.Sets = <<>>
    /\ cu.Sets = TagsFor(<<"v", "1", ".", "5", ".", "0">>)

C12_WitnessRaw ==
    /\ pc = "buildRenderer"
    /\ cu0.Profile = <<"v", "e", "r", "s", "i", "o", "n", "=", "1", ".", "5", ".", "0">>
    /\ pending = cu0.Sets \o TagsFor(<<"1", ".", "5", ".", "0">>)

ModeGiven ==
    /\ BeforeRendererReturned
    /\ HasEq(cu0.Profile)
    /\ ProfileKeyOf(cu0) = IptablesMgrProfileKey
    /\ ProfileValueOf(cu0) \notin {<<"i", "n", "t", "e", "r", "n", "a", "l">>,
                                  <<"e", "x", "t", "e", "r", "n", "a", "l">>}
    /\ ret # ErrInvalidProfile

ExternalModeProfile ==
    <<"i", "p", "t", "a", "b", "l", "e", "s", "M", "g", "r", "M", "o", "d", "e", "=", "e", "x", "t", "e", "r", "n", "a", "l">>

\* C13: iptablesMgrMode=<v> with v neither internal nor external resolves
\* without error to the pending overrides that iptablesMgrMode=external
\* resolves to.
C13_UnknownModeIsExternal ==
    ModeGiven =>
        /\ ret.kind # "error"
        /\ pending = FlagSets(ResolveProfile([cu0 EXCEPT !.Profile = ExternalModeProfile], RpOk).cu)

\* What the code does: no error, and no mode override at all.
C13_UnknownModeAddsNothing ==
    ModeGiven => (ret.kind # "error" /\ pending = FlagSets(cu0))

(***************************************************************************)
(* RunHelmInstall and the deployment backend                               *)
(***************************************************************************)

\* DefaultHelmTimeout, in seconds
DefaultHelmTimeout ==
    60

DefaultHelmWait ==
    TRUE

DefaultHelmCreateNs ==
    TRUE

\* driver.NewErrNoDeployedReleases(name)
NewErrNoDeployedReleases(name) ==
    Err("%q has no deployed releases", name)

ErrUnreachable ==
    Err("Kubernetes cluster unreachable", <<>>)

ErrNameInUse ==
    Err("cannot re-use a name that is still in use", <<>>)

\* "--force would not wait": Wait and Timeout keep their zero values.
WaitAlways(c) ==
    [Wait |-> DefaultHelmWait, Timeout |-> DefaultHelmTimeout]

WaitPolicy(c) ==
    IF ~c.Force
    THEN [Wait |-> DefaultHelmWait, Timeout |-> DefaultHelmTimeout]
    ELSE [Wait |-> FALSE, Timeout |-> 0]

\* helmUpgrade.Run(r.componentName, r.chart, r.profileValsMap)
UpgradeCall(c, r) ==
    [op |-> "upgrade", name |-> r.componentName, chart |-> r.chart, vals |-> r.profileValsMap,
     DryRun |-> c.DryRun, Wait |-> WaitPolicy(c).Wait, Timeout |-> WaitPolicy(c).Timeout,
     CreateNamespace |-> FALSE]

\* helmInstall.Run(r.chart, r.profileValsMap) with ReleaseName r.componentName
InstallCall(c, r) ==
    [op |-> "install", name |-> r.componentName, chart |-> r.chart, vals |-> r.profileValsMap,
     DryRun |-> c.DryRun, Wait |-> WaitPolicy(c).Wait, Timeout |-> WaitPolicy(c).Timeout,
     CreateNamespace |-> DefaultHelmCreateNs]

\* Falling back to install whatever the upgrade's error was.
InstallOnAnyError(err, r) ==
    TRUE

\* Never falling back to install.
InstallNever(err, r) ==
    FALSE

\* err.Error() == errReleaseNotFound
IsReleaseNotFound(err, r) ==
    err = NewErrNoDeployedReleases(r.componentName)

\* Dropping the fallback install's error.
InstallErrorDropped(err) ==
    Nil

\* if _, err := helmInstall.Run(...); err != nil { return err }; return nil
InstallReturn(err) ==
    err

\* The backend's upgrade: without a release of that name it reports that
\* there are no deployed releases; with one it upgrades it (a dry run
\* changes nothing).  Either may fail for a reason of the cluster's.
UpgradeOutcomes(call, n) ==
    {[err |-> IF n = 0 THEN NewErrNoDeployedReleases(call.name) ELSE Nil,
      releases |-> n, fault |-> FALSE],
     [err |-> ErrUnreachable, releases |-> n, fault |-> TRUE]}

\* The backend's install: the name must be free; a dry run creates nothing.
InstallOutcomes(call, n) ==
    {[err |-> IF n > 0 THEN ErrNameInUse ELSE Nil,
      releases |-> IF n = 0 /\ ~call.DryRun THEN n + 1 ELSE n, fault |-> FALSE],
     [err |-> ErrUnreachable, releases |-> n, fault |-> TRUE]}

(***************************************************************************)
(* InstallTools, statement by statement                                    *)
(***************************************************************************)

\* The most runs of InstallTools against one cluster.
MaxApplies ==
    3

ErrAlreadyRunning ==
    Err("CloudCore is already running on this node, please run reset to clean up first", <<>>)

HelmProfiles ==
    {<<>>, <<"a", "d", "d", "o", "n", "=", "o", "n">>, <<"b", "o", "g", "u", "s">>}

HelmSets ==
    {<<>>, <<<<"c", "=", "3">>>>, <<<<"a", "[", "x", "]", "=", "1">>>>}

HelmInputs ==
    {[NewTool(p, s, NoFlags) EXCEPT !.Force = f, !.DryRun = d] :
        p \in HelmProfiles, s \in HelmSets, f \in BOOLEAN, d \in BOOLEAN}

InitHelm ==
    /\ cu0 \in HelmInputs
    /\ cu = cu0
    /\ pc = "start"
    /\ ret = Nil
    /\ pending = <<>>
    /\ profileValsMap = EmptyTree
    /\ renderer = NoRenderer
    /\ steps = <<>>
    /\ calls = <<>>
    /\ release0 \in {0, 1}
    /\ releases = release0
    /\ invocations = 1
    /\ applies = 0
    /\ faulted = FALSE
    /\ ku = NoEdgeTool
    /\ edgeFile = NoFile
    /\ edgeFile0 = NoFile
    /\ edgeRun = NotRun
    /\ loop = NoLoop


\* Checking the process although --force is given.
CheckAlways(c) ==
    TRUE

\* if !cu.Force { ... IsKubeEdgeProcessRunning ... }
ChecksRunning(c) ==
    ~c.Force

DoCheckRunning ==
    /\ pc = "start"
    /\ IF ChecksRunning(cu)
       THEN \E r \in {"error", "running", "not running"} :
               /\ steps' = Append(steps, Step("IsKubeEdgeProcessRunning: " \o r, r = "not running"))
               /\ ret' = CASE r = "error" -> Err("IsKubeEdgeProcessRunning", <<>>)
                           [] r = "running" -> ErrAlreadyRunning
                           [] OTHER -> ret
               /\ pc' = IF r = "not running" THEN "IsK8SComponentInstalled" ELSE "done"
       ELSE /\ pc' = "IsK8SComponentInstalled"
            /\ UNCHANGED <<steps, ret>>
    /\ UNCHANGED <<cu, cu0, pending, profileValsMap, renderer, clusterVars, edgeVars, loopVars>>

DoCheckK8s ==
    /\ pc = "IsK8SComponentInstalled"
    /\ \E ok \in BOOLEAN :
          /\ steps' = Append(steps, Step("IsK8SComponentInstalled", ok))
          /\ ret' = IF ok THEN ret ELSE Err("IsK8SComponentInstalled", <<>>)
          /\ pc' = IF ok THEN "BeforeRenderer" ELSE "done"
    /\ UNCHANGED <<cu, cu0, pending, profileValsMap, renderer, clusterVars, edgeVars, loopVars>>

DoLoadChart ==
    /\ pc = "LoadChart"
    /\ \E ok \in BOOLEAN :
          /\ steps' = Append(steps, Step("LoadChart", ok))
          /\ renderer' = IF ok THEN [renderer EXCEPT !.chart = <<"#">> \o renderer.componentName]
                         ELSE renderer
          /\ ret' = IF ok THEN ret
                    ELSE Err("cannot load the given charts %s, error: %s", renderer.componentName)
          /\ pc' = IF ok THEN "RunHelmInstall" ELSE "done"
    /\ UNCHANGED <<cu, cu0, pending, profileValsMap, clusterVars, edgeVars, loopVars>>

\* RunHelmInstall up to cfg.Init
DoCfgInit ==
    /\ pc = "RunHelmInstall"
    /\ \E ok \in BOOLEAN :
          /\ steps' = Append(steps, Step("cfg.Init", ok))
          /\ ret' = IF ok THEN ret ELSE Err("cfg.Init", <<>>)
          /\ pc' = IF ok THEN "upgrade" ELSE "done"
          /\ faulted' = (faulted \/ ~ok)
    /\ applies' = applies + 1
    /\ UNCHANGED <<cu, cu0, pending, profileValsMap, renderer, calls, releases, release0,
                   invocations, edgeVars, loopVars>>

\* "try to update a version"
DoUpgrade ==
    /\ pc = "upgrade"
    /\ \E o \in UpgradeOutcomes(UpgradeCall(cu, renderer), releases) :
          /\ calls' = Append(calls, [call |-> UpgradeCall(cu, renderer), err |-> o.err])
          /\ steps' = Append(steps, Step("Upgrade", o.err = Nil))
          /\ releases' = o.releases
          /\ faulted' = (faulted \/ o.fault)
          /\ IF o.err = Nil
             THEN pc' = "done" /\ ret' = Nil
             ELSE IF IsReleaseNotFound(o.err, renderer)
             THEN pc' = "install" /\ UNCHANGED ret
             ELSE pc' = "done" /\ ret' = o.err
    /\ UNCHANGED <<cu, cu0, pending, profileValsMap, renderer, release0, invocations, applies,
                   edgeVars, loopVars>>

\* "if the error returns is errReleaseNotFound, would try to install it"
DoInstall ==
    /\ pc = "install"
    /\ \E o \in InstallOutcomes(InstallCall(cu, renderer), releases) :
          /\ calls' = Append(calls, [call |-> InstallCall(cu, renderer), err |-> o.err])
          /\ steps' = Append(steps, Step("Install", o.err = Nil))
          /\ releases' = o.releases
          /\ faulted' = (faulted \/ o.fault)
          /\ ret' = InstallReturn(o.err)
          /\ pc' = "done"
    /\ UNCHANGED <<cu, cu0, pending, profileValsMap, renderer, release0, invocations, applies,
                   edgeVars, loopVars>>

\* The command is run again with the same flags against the same cluster.
DoRunAgain ==
    /\ pc = "done"
    /\ invocations < MaxApplies
    /\ invocations' = invocations + 1
    /\ cu' = cu0
    /\ pc' = "start"
    /\ ret' = Nil
    /\ pending' = <<>>
    /\ profileValsMap' = EmptyTree
    /\ renderer' = NoRenderer
    /\ steps' = <<>>
    /\ calls' = <<>>
    /\ UNCHANGED <<cu0, releases, release0, applies, faulted, edgeVars, loopVars>>

NextHelm ==
    \/ DoCheckRunning
    \/ DoCheckK8s
    \/ DoBeforeRenderer
    \/ DoBuildRenderer
    \/ DoLoadChart
    \/ DoCfgInit
    \/ DoUpgrade
    \/ DoInstall
    \/ DoRunAgain

SpecHelm ==
    InitHelm /\ [][NextHelm]_vars

(***************************************************************************)
(* Properties of the apply protocol                                        *)
(***************************************************************************)

Ops ==
    [i \in 1..Len(calls) |-> calls[i].call.op]

StepsMade ==
    {steps[i].call : i \in 1..Len(steps)}

StepsPassed ==
    {steps[i].call : i \in {j \in 1..Len(steps) : steps[j].ok}}

\* RunHelmInstall has returned in this run.
ApplyReturned ==
    pc = "done" /\ "cfg.Init" \in StepsMade

\* C1: the first backend call is the upgrade; an install follows if and
\* only if the upgrade returned exactly the no-deployed-releases error of
\* the component name, and then exactly once, with the upgrade's chart and
\* value tree and the component name as release name.
C1_UpgradeFirstInstallOnAbsence ==
    /\ Len(calls) <= 2
    /\ Len(calls) >= 1 =>
          /\ calls[1].call.op = "upgrade"
          /\ calls[1].call.name = renderer.componentName
    /\ Len(calls) = 2 =>
          /\ calls[2].call.op = "install"
          /\ calls[1].err = Err("%q has no deployed releases", renderer.componentName)
          /\ calls[2].call.chart = calls[1].call.chart
          /\ calls[2].call.vals = calls[1].call.vals
          /\ calls[2].call.vals = profileValsMap
          /\ calls[2].call.name = renderer.componentName
    /\ (ApplyReturned /\ "cfg.Init" \in StepsPassed) =>
          /\ Len(calls) >= 1
          /\ calls[1].err = Err("%q has no deployed releases", renderer.componentName)
                => Len(calls) = 2
    /\ pc = "install" => Len(calls) = 1

C1_Witness ==
    /\ ApplyReturned
    /\ Ops = <<"upgrade", "install">>
    /\ calls[2].err = Nil
    /\ calls[1].call.vals = [q \in {<<Key_c>>} |-> <<"3">>]
    /\ renderer.componentName = <<"a", "d", "d", "o", "n">>

\* C2: at most one upgrade and one install, and the return value is nil
\* exactly when the upgrade succeeded or the upgrade reported no deployed
\* releases and the install succeeded; otherwise it is the error of the
\* call that failed.
C2_AtMostTwoCallsNoRetry ==
    /\ Len(calls) <= 2
    /\ Cardinality({i \in 1..Len(calls) : calls[i].call.op = "upgrade"}) <= 1
    /\ Cardinality({i \in 1..Len(calls) : calls[i].call.op = "install"}) <= 1
    /\ (ApplyReturned /\ calls # <<>>) =>
          /\ ret = Nil <=>
                \/ calls[1].err = Nil
                \/ /\ calls[1].err = Err("%q has no deployed releases", renderer.componentName)
                   /\ Len(calls) = 2
                   /\ calls[2].err = Nil
          /\ ret = calls[Len(calls)].err

C2_Witness ==
    /\ ApplyReturned
    /\ Ops = <<"upgrade", "install">>
    /\ calls[2].err = ErrUnreachable
    /\ ret = ErrUnreachable

\* The applies this property speaks of: the cluster had no release of the
\* component at first and no call has failed for a reason of the cluster's.
FreshAndHealthy ==
    release0 = 0 /\ ~faulted

\* C3 as claimed: every apply returns nil, the first one upgrades and then
\* installs, every later one only upgrades, and there is never more than
\* one release.
C3_RepeatedApplies ==
    /\ FreshAndHealthy => releases <= 1
    /\ (FreshAndHealthy /\ ApplyReturned) =>
          /\ ret = Nil
          /\ applies = 1 => Ops = <<"upgrade", "install">>
          /\ applies > 1 => Ops = <<"upgrade">>

\* C3, amended: without dryRun it is as claimed; with dryRun no release is
\* ever created, so every apply returns nil after an upgrade that reports
\* no deployed releases and an install.
C3_RepeatedAppliesUnlessDryRun ==
    /\ FreshAndHealthy => releases <= 1
    /\ (FreshAndHealthy /\ ApplyReturned) =>
          /\ ret = Nil
          /\ applies = 1 => Ops = <<"upgrade", "install">>
          /\ (applies > 1 /\ ~cu.DryRun) => (Ops = <<"upgrade">> /\ releases = 1)
          /\ cu.DryRun => (Ops = <<"upgrade", "install">> /\ releases = 0)

C3_Witness ==
    /\ FreshAndHealthy
    /\ ApplyReturned
    /\ applies = 3
    /\ ~cu.DryRun
    /\ Ops = <<"upgrade">>
    /\ ret = Nil
    /\ releases = 1

RunningStep ==
    "IsKubeEdgeProcessRunning: running"

CheckSteps ==
    {"IsKubeEdgeProcessRunning: running", "IsKubeEdgeProcessRunning: error",
     "IsKubeEdgeProcessRunning: not running"}

\* The position in steps of the call named c, or 0.
StepAt(c) ==
    IF c \in StepsMade THEN CHOOSE i \in 1..Len(steps) : steps[i].call = c ELSE 0

\* C4: without --force a running cloudcore ends InstallTools with the
\* already-running error before anything else is done; with --force the
\* process is not checked; and a backend call is made only after the
\* Kubernetes check and BeforeRenderer have both succeeded.
C4_PreconditionsBeforeApply ==
    /\ RunningStep \in StepsMade =>
          /\ ~cu.Force
          /\ pc = "done" /\ ret = ErrAlreadyRunning
          /\ steps = <<Step(RunningStep, FALSE)>>
          /\ calls = <<>> /\ cu = cu0 /\ pending = <<>> /\ renderer = NoRenderer
    /\ (~cu.Force /\ pc # "start") => steps[1].call \in CheckSteps
    /\ cu.Force => StepsMade \cap CheckSteps = {}
    /\ calls # <<>> =>
          /\ {"IsK8SComponentInstalled", "BeforeRenderer"} \subseteq StepsPassed
          /\ StepAt("IsK8SComponentInstalled") < StepAt("BeforeRenderer")
          /\ StepAt("BeforeRenderer") < StepAt("Upgrade")

\* A second run, after the first one installed the release, finds the
\* process running.
C4_Witness ==
    /\ invocations = 2
    /\ releases = 1
    /\ ~cu.Force
    /\ pc = "done"
    /\ ret = ErrAlreadyRunning
    /\ calls = <<>>

C4_WitnessForce ==
    /\ cu.Force
    /\ pc = "done"
    /\ Ops = <<"upgrade">>

(***************************************************************************)
(* createEdgeConfigFiles, in its two versions                              *)
(***************************************************************************)

CGroupDriverSystemd ==
    <<"s", "y", "s", "t", "e", "m", "d">>

CGroupDriverCGroupFS ==
    <<"c", "g", "r", "o", "u", "p", "f", "s">>

\* constants.DefaultTunnelPort
DefaultTunnelPort ==
    10004

HttpsPrefix ==
    <<"h", "t", "t", "p", "s", ":", "/", "/">>

Port10002 ==
    <<"1", "0", "0", "0", "2">>

Port10001 ==
    <<"1", "0", "0", "0", "1">>

Port10004 ==
    <<"1", "0", "0", "0", "4">>

\* What NewDefaultEdgeCoreConfig puts in a field the tool does not set.
DefaultValue ==
    <<"?">>

EdgeTaint ==
    [Key |-> "node-role.kubernetes.io/edge", Effect |-> "NoSchedule"]

NewDefaultEdgeCoreConfig ==
    [WebSocketServer |-> DefaultValue, HostnameOverride |-> DefaultValue, NodeIP |-> DefaultValue,
     RuntimeType |-> DefaultValue, CGroupDriver |-> DefaultValue,
     RemoteRuntimeEndpoint |-> DefaultValue, RemoteImageEndpoint |-> DefaultValue,
     Token |-> DefaultValue, HTTPServer |-> DefaultValue, QuicServer |-> DefaultValue,
     TunnelServer |-> DefaultValue, Taints |-> <<>>, Labels |-> <<>>, hasLabels |-> FALSE]

\* strings.Split(ku.CloudCoreIP, ":")[0]
HostOf(addr) ==
    Split(addr, ":")[1]

\* net.JoinHostPort
JoinHostPort(host, port) ==
    IF \E i \in 1..Len(host) : host[i] = ":"
    THEN <<"[">> \o host \o <<"]", ":">> \o port
    ELSE host \o <<":">> \o port

OrDefault(field, given) ==
    IF given # <<>> THEN given ELSE field

\* The label loop: key and value are parts 0 and 1 of the token split on
\* every '='; a token without '=' has no part 1.
RECURSIVE LabelsMap(_, _)
LabelsMap(labels, m) ==
    IF Len(labels) = 0 THEN [panic |-> FALSE, m |-> m]
    ELSE LET parts == Split(Head(labels), "=")
         IN  IF Len(parts) < 2 THEN [panic |-> TRUE, m |-> m]
             ELSE LabelsMap(Tail(labels),
                            [k \in DOMAIN m \cup {parts[1]} |->
                                IF k = parts[1] THEN parts[2] ELSE m[k]])

WithLabels(cfg, k) ==
    IF Len(k.Labels) >= 1
    THEN LET l == LabelsMap(k.Labels, [x \in {} |-> <<>>])
         IN  [panic |-> l.panic,
              cfg |-> IF l.panic THEN cfg ELSE [cfg EXCEPT !.Labels = l.m, !.hasLabels = TRUE]]
    ELSE [panic |-> FALSE, cfg |-> cfg]

CGroupSupported(k) ==
    k.CGroupDriver \in {<<>>, CGroupDriverSystemd, CGroupDriverCGroupFS}

\* The statements both versions share, up to the cgroup driver switch.
WithIdentity(cfg, k) ==
    [cfg EXCEPT !.WebSocketServer = k.CloudCoreIP,
                !.HostnameOverride = OrDefault(@, k.EdgeNodeName),
                !.NodeIP = OrDefault(@, k.EdgeNodeIP),
                !.RuntimeType = OrDefault(@, k.RuntimeType)]

WithRuntimeAndToken(cfg, k) ==
    [cfg EXCEPT !.CGroupDriver = OrDefault(@, k.CGroupDriver),
                !.RemoteRuntimeEndpoint = OrDefault(@, k.RemoteRuntimeEndpoint),
                !.RemoteImageEndpoint = OrDefault(@, k.RemoteRuntimeEndpoint),
                !.Token = OrDefault(@, k.Token)]

HTTPServerOf(k) ==
    HttpsPrefix \o HostOf(k.CloudCoreIP) \o <<":">> \o
        (IF k.CertPort # <<>> THEN k.CertPort ELSE Port10002)

QuicServerOf(k) ==
    HostOf(k.CloudCoreIP) \o <<":">> \o (IF k.QuicPort # <<>> THEN k.QuicPort ELSE Port10001)

TunnelServerOf(k) ==
    HostOf(k.CloudCoreIP) \o <<":">> \o (IF k.TunnelPort # <<>> THEN k.TunnelPort ELSE Port10004)

WithTaint(cfg, k) ==
    IF k.HasDefaultTaint THEN [cfg EXCEPT !.Taints = Append(@, EdgeTaint)] ELSE cfg

\* src/unnamed/part_000: the configuration as assembled before validation.
Assemble_part000(k) ==
    LET c1 == WithIdentity(NewDefaultEdgeCoreConfig, k)
    IN  IF ~CGroupSupported(k)
        THEN [ret |-> Err("unsupported CGroupDriver: %s", k.CGroupDriver), cfg |-> c1]
        ELSE LET c2 == WithRuntimeAndToken(c1, k)
                 c3 == [c2 EXCEPT !.HTTPServer = HTTPServerOf(k),
                                  !.QuicServer = QuicServerOf(k),
                                  !.TunnelServer = TunnelServerOf(k)]
                 c4 == WithLabels(WithTaint(c3, k), k)
             IN  IF c4.panic THEN [ret |-> Panic("index out of range [1] with length 1"), cfg |-> c3]
                 ELSE [ret |-> Nil, cfg |-> c4.cfg]

\* helminstaller.go: after the three endpoints, the HTTP server is set a
\* second time and the tunnel server is set from DefaultTunnelPort.
Assemble_helminstaller(k) ==
    LET c1 == WithIdentity(NewDefaultEdgeCoreConfig, k)
        c2 == [c1 EXCEPT !.HTTPServer = HTTPServerOf(k),
                         !.QuicServer = QuicServerOf(k),
                         !.TunnelServer = TunnelServerOf(k)]
        c3 == WithTaint(c2, k)
    IN  IF ~CGroupSupported(k)
        THEN [ret |-> Err("unsupported CGroupDriver: %s", k.CGroupDriver), cfg |-> c3]
        ELSE LET c4 == WithRuntimeAndToken(c3, k)
                 cloudCoreIP == HostOf(k.CloudCoreIP)
                 c5 == [c4 EXCEPT !.HTTPServer = HttpsPrefix \o cloudCoreIP \o <<":">> \o
                                      (IF k.CertPort # <<>> THEN k.CertPort ELSE Port10002),
                                  !.TunnelServer = JoinHostPort(cloudCoreIP, Itoa(DefaultTunnelPort))]
                 c6 == WithLabels(c5, k)
             IN  IF c6.panic THEN [ret |-> Panic("index out of range [1] with length 1"), cfg |-> c5]
                 ELSE [ret |-> Nil, cfg |-> c6.cfg]

\* Writing whatever the validator said.
ValidationIgnored(errs) ==
    FALSE

\* if errs := validation.ValidateEdgeCoreConfiguration(cfg); len(errs) > 0
ValidationFails(errs) ==
    Len(errs) > 0

\* What the file system and the validator may answer.
EdgeEnvs ==
    [mkdirOk : BOOLEAN,
     errs : {<<>>, <<"e1">>, <<"e1", "e2">>},
     write : {"ok", "failed, file untouched", "failed, file cut short"}]

\* createEdgeConfigFiles: what it returns, the file it leaves, how far it got.
createEdgeConfigFiles(k, file, env) ==
    IF ~env.mkdirOk
    THEN [ret |-> Err("not able to create %s folder path", <<>>), file |-> file, run |-> NotRun]
    ELSE LET a == IF k.version = "part_000" THEN Assemble_part000(k) ELSE Assemble_helminstaller(k)
         IN  IF a.ret # Nil
             THEN [ret |-> a.ret, file |-> file, run |-> [NotRun EXCEPT !.mkdir = TRUE]]
             ELSE IF ValidationFails(env.errs)
             THEN [ret |-> Err("SpliceErrors", <<>>), file |-> file,
                   run |-> [mkdir |-> TRUE, assembled |-> TRUE, validated |-> "failed",
                            writeTried |-> FALSE]]
             ELSE [ret |-> IF env.write = "ok" THEN Nil ELSE Err("Write2File", <<>>),
                   file |-> CASE env.write = "ok" -> [content |-> "config", cfg |-> a.cfg]
                              [] env.write = "failed, file untouched" -> file
                              [] OTHER -> [content |-> "cut short"],
                   run |-> [mkdir |-> TRUE, assembled |-> TRUE,
                            validated |-> IF Len(env.errs) = 0 THEN "passed" ELSE "failed",
                            writeTried |-> TRUE]]

\* The most label tokens given.
MaxLabels ==
    2

LabelPool ==
    {<<"a", "=", "b">>, <<"a", "=", "b", "=", "c">>, <<"k">>}

EdgeTools ==
    [version : {"part_000", "helminstaller.go"},
     CloudCoreIP : {<<"1", ".", "2", ".", "3", ".", "4", ":", "8", "0", "8", "0">>, <<"h">>},
     CertPort : {<<>>, <<"9">>},
     QuicPort : {<<>>, <<"8">>},
     TunnelPort : {<<>>, <<"7">>},
     CGroupDriver : {<<>>, CGroupDriverSystemd, CGroupDriverCGroupFS, <<"x">>},
     HasDefaultTaint : BOOLEAN,
     Labels : ListsUpTo(LabelPool, MaxLabels),
     EdgeNodeName : {<<"n">>}, EdgeNodeIP : {<<>>}, RuntimeType : {<<>>},
     RemoteRuntimeEndpoint : {<<"e">>}, Token : {<<"t">>}]

OldFile ==
    [content |-> "old"]

InitEdge ==
    /\ ku \in EdgeTools
    /\ edgeFile0 \in {NoFile, OldFile}
    /\ edgeFile = edgeFile0
    /\ edgeRun = NotRun
    /\ loop = NoLoop
    /\ pc = "createEdgeConfigFiles"
    /\ ret = Nil
    /\ cu0 = NewTool(<<>>, <<>>, NoFlags)
    /\ cu = cu0
    /\ pending = <<>>
    /\ profileValsMap = EmptyTree
    /\ renderer = NoRenderer
    /\ steps = <<>>
    /\ calls = <<>>
    /\ releases = 0
    /\ release0 = 0
    /\ invocations = 1
    /\ applies = 0
    /\ faulted = FALSE

DoCreateEdgeConfigFiles ==
    /\ pc = "createEdgeConfigFiles"
    /\ \E env \in EdgeEnvs :
          LET r == createEdgeConfigFiles(ku, edgeFile, env)
          IN  /\ ret' = r.ret
              /\ edgeFile' = r.file
              /\ edgeRun' = r.run
    /\ pc' = "done"
    /\ UNCHANGED <<cu, cu0, pending, profileValsMap, renderer, steps, clusterVars,
                   ku, edgeFile0, loopVars>>

NextEdge ==
    DoCreateEdgeConfigFiles

SpecEdge ==
    InitEdge /\ [][NextEdge]_vars

(***************************************************************************)
(* Properties of the edge configuration                                    *)
(***************************************************************************)

EdgeReturned ==
    pc = "done" /\ ku.version # "none"

\* C5: an unsupported cgroup driver or a validator error ends the call with
\* an error and the file as it was; Write2File is called only once the
\* assembled configuration has passed validation.
C5_NoWriteUnlessValidated ==
    EdgeReturned =>
        /\ ~edgeRun.writeTried => edgeFile = edgeFile0
        /\ edgeRun.writeTried =>
              (edgeRun.validated = "passed" /\ edgeRun.assembled /\ CGroupSupported(ku))
        /\ ~CGroupSupported(ku) =>
              (ret.kind = "error" /\ ~edgeRun.writeTried /\ edgeFile = edgeFile0)
        /\ (~CGroupSupported(ku) /\ edgeRun.mkdir) =>
              ret = Err("unsupported CGroupDriver: %s", ku.CGroupDriver)
        /\ edgeRun.validated = "failed" =>
              (ret = Err("SpliceErrors", <<>>) /\ ~edgeRun.writeTried /\ edgeFile = edgeFile0)
        /\ ret = Nil => (edgeRun.writeTried /\ edgeFile.content = "config")

C5_Witness ==
    /\ EdgeReturned
    /\ edgeRun.validated = "failed"
    /\ edgeFile0 = OldFile
    /\ edgeFile = OldFile
    /\ ret = Err("SpliceErrors", <<>>)

C5_WitnessWritten ==
    /\ EdgeReturned
    /\ ret = Nil
    /\ edgeFile0 = OldFile
    /\ edgeRun.validated = "passed"
    /\ edgeFile.content = "config"

EndpointsAsClaimed(cfg, k) ==
    /\ cfg.HTTPServer = HttpsPrefix \o HostOf(k.CloudCoreIP) \o <<":">> \o
                            (IF k.CertPort # <<>> THEN k.CertPort ELSE <<"1", "0", "0", "0", "2">>)
    /\ cfg.QuicServer = HostOf(k.CloudCoreIP) \o <<":">> \o
                            (IF k.QuicPort # <<>> THEN k.QuicPort ELSE <<"1", "0", "0", "0", "1">>)
    /\ cfg.TunnelServer = HostOf(k.CloudCoreIP) \o <<":">> \o
                            (IF k.TunnelPort # <<>> THEN k.TunnelPort ELSE <<"1", "0", "0", "0", "4">>)

\* C6: in both versions the configuration written has the HTTP, QUIC and
\* tunnel servers on the host of the cloud-core address, each on the port
\* supplied for it or else on 10002, 10001 and 10004.
C6_EndpointDefaults ==
    (EdgeReturned /\ ret = Nil) => EndpointsAsClaimed(edgeFile.cfg, ku)

\* What of C6 holds: the version of src/unnamed/part_000.
C6_HoldsInPart000 ==
    (EdgeReturned /\ ret = Nil /\ ku.version = "part_000") => EndpointsAsClaimed(edgeFile.cfg, ku)

\* ... and the other version whenever no tunnel port is supplied.
C6_HoldsWithoutTunnelPort ==
    (EdgeReturned /\ ret = Nil /\ ku.TunnelPort = <<>>) => EndpointsAsClaimed(edgeFile.cfg, ku)

(***************************************************************************)
(* AddInitBeta2ToolsList and AddManifestsGenerate2ToolsList                *)
(***************************************************************************)

\* util.RetryTimes
RetryTimes ==
    5

\* types.DefaultKubeEdgeVersion
DefaultKubeEdgeVersion ==
    <<"1", ".", "9", ".", "0">>

\* constants.SystemNamespace
SystemNamespace ==
    <<"k", "u", "b", "e", "e", "d", "g", "e">>

\* What util.GetLatestVersion may return: an error, an empty version, a
\* version, or text that is no version.
GetLatestVersionOutcomes ==
    {[err |-> TRUE, version |-> <<>>],
     [err |-> FALSE, version |-> <<>>],
     [err |-> FALSE, version |-> <<"v", "1", ".", "1", "0", ".", "0">>],
     [err |-> FALSE, version |-> <<"x">>]}

\* Going on to the next attempt whatever was fetched.
NeverBreaks(o) ==
    FALSE

\* The attempt that ends the loop: no error and len(version) > 0.
BreaksLoop(o) ==
    ~o.err /\ Len(o.version) > 0

InitRetry ==
    /\ loop \in [fn : {"AddInitBeta2ToolsList", "AddManifestsGenerate2ToolsList"},
                 i : {0}, kubeVer : {<<>>}, latestVersion : {<<>>}, attempts : {<<>>},
                 Namespace : {<<>>, <<"n", "s">>}, DryRun : BOOLEAN,
                 toolList : {{}}, ToolVersion : {<<>>}]
    /\ pc = "GetLatestVersion"
    /\ ret = Nil
    /\ cu0 = NewTool(<<>>, <<>>, NoFlags)
    /\ cu = cu0
    /\ pending = <<>>
    /\ profileValsMap = EmptyTree
    /\ renderer = NoRenderer
    /\ steps = <<>>
    /\ calls = <<>>
    /\ releases = 0
    /\ release0 = 0
    /\ invocations = 1
    /\ applies = 0
    /\ faulted = FALSE
    /\ ku = NoEdgeTool
    /\ edgeFile = NoFile
    /\ edgeFile0 = NoFile
    /\ edgeRun = NotRun

\* One turn of "for i := 0; i < util.RetryTimes; i++".
DoGetLatestVersion ==
    /\ pc = "GetLatestVersion"
    /\ loop.i < RetryTimes
    /\ \E o \in GetLatestVersionOutcomes :
          /\ loop' = IF o.err \/ Len(o.version) = 0
                     THEN [loop EXCEPT !.attempts = Append(@, o), !.i = @ + 1]
                     ELSE IF BreaksLoop(o)
                     THEN [loop EXCEPT !.attempts = Append(@, o),
                                       !.kubeVer = TrimPrefix(o.version, <<"v">>),
                                       !.latestVersion = o.version]
                     ELSE [loop EXCEPT !.attempts = Append(@, o),
                                       !.kubeVer = TrimPrefix(o.version, <<"v">>),
                                       !.latestVersion = o.version,
                                       !.i = @ + 1]
          /\ pc' = IF BreaksLoop(o) \/ loop.i + 1 >= RetryTimes
                   THEN "register" ELSE "GetLatestVersion"
    /\ UNCHANGED <<cu, cu0, ret, pending, profileValsMap, renderer, steps, clusterVars, edgeVars>>

\* After the loop: the default version, the default namespace, the tool.
\* semver.MustParse panics on text that is no version.
DoRegister ==
    /\ pc = "register"
    /\ LET kubeVer == IF Len(loop.latestVersion) = 0 THEN DefaultKubeEdgeVersion ELSE loop.kubeVer
           ns == IF loop.Namespace = <<>> THEN SystemNamespace ELSE loop.Namespace
       IN  IF semverMake(kubeVer).ok
           THEN /\ loop' = [loop EXCEPT !.kubeVer = kubeVer, !.Namespace = ns,
                                        !.ToolVersion = kubeVer, !.toolList = {"helm"}]
                /\ ret' = Nil
           ELSE /\ loop' = [loop EXCEPT !.kubeVer = kubeVer, !.Namespace = ns]
                /\ ret' = Panic("Invalid Semantic Version")
    /\ pc' = "done"
    /\ UNCHANGED <<cu, cu0, pending, profileValsMap, renderer, steps, clusterVars, edgeVars>>

NextRetry ==
    DoGetLatestVersion \/ DoRegister

SpecRetry ==
    InitRetry /\ [][NextRetry]_vars

\* The calls are sequential and each returns: the function keeps running.
SpecRetryLive ==
    SpecRetry /\ WF_vars(NextRetry)

(***************************************************************************)
(* Properties of the version loop                                          *)
(***************************************************************************)

LoopRuns ==
    loop.fn # "none"

Fetched(o) ==
    ~o.err /\ Len(o.version) > 0

\* At most RetryTimes attempts, none after the first that fetched a
\* version, and with no version fetched the default version is used, nil
\* is returned and the helm tool is registered.
AttemptsBounded ==
    LoopRuns =>
        /\ Len(loop.attempts) <= RetryTimes
        /\ \A k \in 1..Len(loop.attempts) : Fetched(loop.attempts[k]) => k = Len(loop.attempts)
        /\ (pc = "done" /\ \A k \in 1..Len(loop.attempts) : ~Fetched(loop.attempts[k])) =>
              /\ Len(loop.attempts) = RetryTimes
              /\ ret = Nil
              /\ loop.ToolVersion = <<"1", ".", "9", ".", "0">>
              /\ loop.toolList = {"helm"}

\* C14: the loop makes at most RetryTimes attempts, stops at the first
\* that fetches a version, the function returns, and when no attempt
\* fetched a version it returns nil with the default version and the helm
\* tool registered.
C14_BoundedRetryThenDefault ==
    []AttemptsBounded /\ <>(pc = "done")

C14_Witness ==
    /\ LoopRuns
    /\ pc = "done"
    /\ Len(loop.attempts) = 5
    /\ loop.attempts[1].err
    /\ ~loop.attempts[2].err
    /\ \A k \in 1..5 : ~Fetched(loop.attempts[k])
    /\ ret = Nil
    /\ loop.toolList = {"helm"}

C14_WitnessFetched ==
    /\ LoopRuns
    /\ pc = "done"
    /\ Len(loop.attempts) = 3
    /\ Fetched(loop.attempts[3])
    /\ loop.ToolVersion = <<"1", ".", "1", "0", ".", "0">>

(***************************************************************************)
(* Further properties of InstallTools and RunHelmInstall                   *)
(***************************************************************************)

BuildFailed ==
    \E i \in 1..Len(steps) : steps[i] = Step("buildRenderer", FALSE)

\* C15: when combineProfVals fails, InstallTools returns the
\* cannot-build-chart-render error to its caller, and neither the chart
\* load nor an upgrade nor an install is made.
C15_BuildFailureReturnsError ==
    BuildFailed =>
        /\ pc = "done"
        /\ ret.kind = "error"
        /\ ret.fmt = "cannot build chart render %s, error: %s"
        /\ StepsMade \cap {"LoadChart", "cfg.Init", "Upgrade", "Install"} = {}
        /\ calls = <<>>

\* What of C15 holds: nothing is loaded or applied.
C15_NothingAppliedAfterBuildFailure ==
    BuildFailed =>
        /\ pc = "done"
        /\ ret = Panic("nil pointer dereference")
        /\ StepsMade \cap {"LoadChart", "cfg.Init", "Upgrade", "Install"} = {}
        /\ calls = <<>>

\* C18: every upgrade and install asks to wait, with a timeout of 60
\* seconds, exactly when Force is not set, carries the caller's DryRun, and
\* only the install asks for the namespace to be created.
C18_SamePolicyOnBothCalls ==
    \A i \in 1..Len(calls) :
        LET call == calls[i].call
        IN  /\ call.Wait = ~cu.Force
            /\ call.Timeout = IF cu.Force THEN 0 ELSE 60
            /\ call.DryRun = cu.DryRun
            /\ call.CreateNamespace = (call.op = "install")
            /\ i > 1 => /\ call.Wait = calls[1].call.Wait
                        /\ call.Timeout = calls[1].call.Timeout
                        /\ call.DryRun = calls[1].call.DryRun

C18_Witness ==
    /\ Len(calls) = 2
    /\ calls[2].call.op = "install"
    /\ cu.Force
    /\ cu.DryRun
    /\ ~calls[2].call.Wait
    /\ calls[2].call.CreateNamespace

C18_WitnessWaits ==
    /\ Len(calls) = 2
    /\ calls[2].call.op = "install"
    /\ ~cu.Force
    /\ calls[1].call.Wait
    /\ calls[2].call.Timeout = 60

(***************************************************************************)
(* Further properties of the override reconciliation                       *)
(***************************************************************************)

\* The caller's list without the entries that have no '='.
WithoutEqLess(sets) ==
    SelectSeq(sets, HasEq)

\* C16: whatever the list, rebuildFlagVals returns, keeps no expression
\* without '=', and keeps what it would keep had the entries without '='
\* not been given.
C16_EqLessDroppedNeverFatal ==
    RebuildCalled =>
        /\ RebuildReturned
        /\ \A e \in Range(cu.Sets) : HasEq(e)
        /\ BeforeRenderer([cu0 EXCEPT !.Sets = WithoutEqLess(cu0.Sets)], RpOk).cu.Sets = cu.Sets

\* What of C16 holds: the same, whenever rebuildFlagVals returns.
C16_HoldsWhenReturned ==
    (RebuildReturned /\ pc = "buildRenderer") =>
        /\ \A e \in Range(cu.Sets) : HasEq(e)
        /\ BeforeRenderer([cu0 EXCEPT !.Sets = WithoutEqLess(cu0.Sets)], RpOk).cu.Sets = cu.Sets

\* C17 as claimed: the paths of consecutive surviving expressions ascend.
C17_PathSorted ==
    pc = "buildRenderer" =>
        \A i \in 1..(Len(cu.Sets) - 1) : StrLess(PathOf(cu.Sets[i]), PathOf(cu.Sets[i + 1]))

\* Path q is path p followed by text that starts with a character sorting
\* below '='.
ExtendsBelowEq(q, p) ==
    /\ Len(q) > Len(p)
    /\ SubSeq(q, 1, Len(p)) = p
    /\ Ord(q[Len(p) + 1]) < Ord("=")

\* C17, amended: consecutive surviving expressions ascend as whole
\* "path=value" strings; their paths ascend too, except that a path which
\* extends the next one by text starting below '=' (a.b against a) comes
\* first.
C17_SortedByExpression ==
    pc = "buildRenderer" =>
        \A i \in 1..(Len(cu.Sets) - 1) :
            /\ StrLess(cu.Sets[i], cu.Sets[i + 1])
            /\ \/ StrLess(PathOf(cu.Sets[i]), PathOf(cu.Sets[i + 1]))
               \/ ExtendsBelowEq(PathOf(cu.Sets[i]), PathOf(cu.Sets[i + 1]))

C17_Witness ==
    /\ pc = "buildRenderer"
    /\ cu0.Sets = <<<<"a", "=", "1">>, <<"c", "=", "3">>, <<"a", ".", "b", "=", "1">>>>
    /\ cu.Sets = <<<<"a", ".", "b", "=", "1">>, <<"a", "=", "1">>, <<"c", "=", "3">>>>

(***************************************************************************)
(* Further properties of the edge configuration                            *)
(***************************************************************************)

\* The text after the first '=' of a label token, "" without one.
AfterFirstEq(s) ==
    SubSeq(s, Len(Split(s, "=")[1]) + 2, Len(s))

\* The labels by the first '=' of each token, later tokens over earlier.
RECURSIVE LabelsByFirstEq(_)
LabelsByFirstEq(labels) ==
    IF Len(labels) = 0 THEN [x \in {} |-> <<>>]
    ELSE LET rest == LabelsByFirstEq(SubSeq(labels, 1, Len(labels) - 1))
             last == labels[Len(labels)]
             key == Split(last, "=")[1]
         IN  [k \in DOMAIN rest \cup {key} |-> IF k = key THEN AfterFirstEq(last) ELSE rest[k]]

\* C19: the function never panics on a label list; a written configuration
\* has labels exactly when a token was given, each token split at its first
\* '=' (a=b=c gives a -> b=c), a later token's value replacing an earlier
\* one's for the same key.
C19_LabelsSplitOnFirstEq ==
    EdgeReturned =>
        /\ ret.kind # "panic"
        /\ ret = Nil =>
              /\ edgeFile.cfg.hasLabels = (Len(ku.Labels) >= 1)
              /\ Len(ku.Labels) >= 1 => edgeFile.cfg.Labels = LabelsByFirstEq(ku.Labels)

\* What of C19 holds: tokens with exactly one '=' are mapped as claimed.
C19_HoldsForOneEq ==
    (EdgeReturned /\ \A i \in 1..Len(ku.Labels) : Len(Split(ku.Labels[i], "=")) = 2) =>
        /\ ret.kind # "panic"
        /\ ret = Nil =>
              /\ edgeFile.cfg.hasLabels = (Len(ku.Labels) >= 1)
              /\ Len(ku.Labels) >= 1 => edgeFile.cfg.Labels = LabelsByFirstEq(ku.Labels)

====
